---- MODULE Spec2Model ----
(***************************************************************************)
(* Model of ChessApp::EngineModule (windows/chessapp/EngineModule.cpp/.h): *)
(* the subprocess-pipe bridge that spawns the engine, drains its stdout on *)
(* a background thread and exposes SpawnEngine / SendCommand / ReadOutput  *)
(* / StopEngine / IsEngineRunning.                                         *)
(*                                                                         *)
(* Threads: the callers of the public methods (Callers) and the thread     *)
(* running OutputReaderThread (the drainer).  The environment is the       *)
(* engine process: it may write bytes to its stdout and may exit.          *)
(***************************************************************************)
EXTENDS Integers, Sequences, FiniteSets, TLC

\* ------------------------------------------------------------------ bounds
\* CreateEngineProcess calls made in one run (each one is an "attempt").
MaxSpawns == 2
\* Bytes the engine processes write to their stdout in one run.
MaxOut == 2
\* Longest command string handed to SendCommand.
MaxCmdLen == 1

\* sizeof(buffer) in OutputReaderThread.
BufSize == 4096

\* ------------------------------------------------------------- vocabulary
Callers == {"c1", "c2"}
Drainer == "drainer"
Free == "free"

Attempts == 1..MaxSpawns

\* The line terminator and an ordinary command character.
NL == "\n"
CmdChars == {"g", NL}

\* Handles.  Every handle an attempt opens is named by the attempt and by the
\* variable of CreateEngineProcess that first holds it.
Kinds == {"stdinRead", "stdinWrite", "stdoutRead", "stdoutWrite",
          "stderrRead", "stderrWrite", "hProcess", "hThread"}
Null == <<0, "nullptr">>
H(a, k) == <<a, k>>
HandleIds == {H(a, k) : a \in Attempts, k \in Kinds}

VARIABLES
    m_isRunning,      \* bool m_isRunning
    m_processHandle,  \* HANDLE m_processHandle
    m_stdinWrite,     \* HANDLE m_stdinWrite
    m_stdoutRead,     \* HANDLE m_stdoutRead
    m_stderrRead,     \* HANDLE m_stderrRead
    m_outputThread,   \* std::thread m_outputThread: TRUE iff joinable()
    m_mutex,          \* std::mutex m_mutex: its owner, or Free
    m_queueMutex,     \* std::mutex m_queueMutex: its owner, or Free
    m_outputQueue,    \* std::queue<std::string> m_outputQueue
    pc,               \* position of each caller inside a public method
    ret,              \* where CleanupProcess returns to, per caller
    command,          \* SendCommand's parameter, per caller
    dpc,              \* position of the drainer thread
    buffer,           \* the drainer's local buffer[0..bytesRead)
    handles,          \* OS handle table: the handles that are open
    badCloses,        \* handles CloseHandle was called on while they were not open
    proc,             \* engine process of each attempt: "none" | "live" | "exited" | "gone"
    pipeOut,          \* bytes waiting in each attempt's stdout pipe
    stdin,            \* the WriteFile call of the step just taken: the pipe (att), SendCommand's
                      \* argument (cmd), the bytes handed over (req), the result (ok, written)
    nAttempts,        \* CreateEngineProcess calls so far
    nOut,             \* bytes written by engine processes so far
    promise,          \* the promise settled by the step just taken
    crashed,          \* std::terminate was called
    enqueued,         \* history: the chunks pushed on the queue since it was last cleared
    returned          \* history: the text ReadOutput returned since the queue was last cleared

vars == <<m_isRunning, m_processHandle, m_stdinWrite, m_stdoutRead, m_stderrRead,
          m_outputThread, m_mutex, m_queueMutex, m_outputQueue, pc, ret, command,
          dpc, buffer, handles, badCloses, proc, pipeOut, stdin, nAttempts, nOut,
          promise, crashed, enqueued, returned>>

session == <<m_isRunning, m_processHandle, m_stdinWrite, m_stdoutRead, m_stderrRead,
             m_outputThread, m_outputQueue>>
os == <<handles, badCloses, proc, pipeOut, nAttempts, nOut>>
drainerVars == <<dpc, buffer>>
history == <<enqueued, returned>>

\* ---------------------------------------------------------------- helpers
RECURSIVE SeqsUpTo(_, _)
SeqsUpTo(S, n) ==
    IF n = 0 THEN {<<>>}
    ELSE LET shorter == SeqsUpTo(S, n - 1)
         IN shorter \cup {Append(s, x) : s \in {t \in shorter : Len(t) = n - 1}, x \in S}

Commands == SeqsUpTo(CmdChars, MaxCmdLen)

Min(a, b) == IF a < b THEN a ELSE b

\* std::string output(buffer): the bytes of buffer up to its first NUL.
RECURSIVE CString(_)
CString(b) ==
    IF b = <<>> \/ Head(b) = 0 THEN <<>> ELSE <<Head(b)>> \o CString(Tail(b))

\* ss << m_outputQueue.front(); m_outputQueue.pop(); until the queue is empty.
RECURSIVE DrainAll(_)
DrainAll(q) == IF q = <<>> THEN <<>> ELSE Head(q) \o DrainAll(Tail(q))

\* CloseHandle on each handle of the sequence hs, in order.  Closing an open
\* handle removes it from the table; nullptr and handles that are not open
\* are not in the table, and closing one changes nothing in it.
RECURSIVE CloseAllIn(_, _)
CloseAllIn(tbl, hs) ==
    IF hs = <<>> THEN tbl ELSE CloseAllIn(tbl \ {Head(hs)}, Tail(hs))

\* The CloseHandle calls of that sequence that are made on a handle that is
\* not open (a second close, a close of a closed handle).
RECURSIVE BadClosesIn(_, _)
BadClosesIn(tbl, hs) ==
    IF hs = <<>> THEN {}
    ELSE (IF Head(hs) # Null /\ Head(hs) \notin tbl THEN {Head(hs)} ELSE {})
         \cup BadClosesIn(tbl \ {Head(hs)}, Tail(hs))

IsOpen(h) == h \in handles

\* A settled ReactPromise: Resolve(value) has kind "resolved", Reject(message)
\* has the message's meaning as its kind.
Settle(op, kind, value, text) ==
    [op |-> op, kind |-> kind, value |-> value, text |-> text]

\* promise and stdin are outputs: each holds what the step just taken emitted,
\* and nothing when that step settled no promise, made no WriteFile call.
NoPromise == Settle("none", "none", FALSE, <<>>)
NoWrite == [att |-> 0, cmd |-> <<>>, req |-> <<>>, ok |-> FALSE, written |-> 0]
Quiet == promise' = NoPromise /\ stdin' = NoWrite

\* The attempt whose handle h is (0 for nullptr).
AttemptOf(h) == h[1]

\* ------------------------------------------------------------------- Init
Init ==
    /\ m_isRunning = FALSE
    /\ m_processHandle = Null
    /\ m_stdinWrite = Null
    /\ m_stdoutRead = Null
    /\ m_stderrRead = Null
    /\ m_outputThread = FALSE
    /\ m_mutex = Free
    /\ m_queueMutex = Free
    /\ m_outputQueue = <<>>
    /\ pc = [c \in Callers |-> "idle"]
    /\ ret = [c \in Callers |-> "idle"]
    /\ command = [c \in Callers |-> <<>>]
    /\ dpc = "none"
    /\ buffer = <<>>
    /\ handles = {}
    /\ badCloses = {}
    /\ proc = [a \in Attempts |-> "none"]
    /\ pipeOut = [a \in Attempts |-> <<>>]
    /\ stdin = NoWrite
    /\ nAttempts = 0
    /\ nOut = 0
    /\ promise = NoPromise
    /\ crashed = FALSE
    /\ enqueued = <<>>
    /\ returned = <<>>

\* ------------------------------------------------- CleanupProcess (393-437)
\* m_isRunning = false;
CleanupClearFlag(c) ==
    /\ pc[c] = "cl_flag"
    /\ m_isRunning' = FALSE
    /\ pc' = [pc EXCEPT ![c] = "cl_join"]
    /\ UNCHANGED <<m_processHandle, m_stdinWrite, m_stdoutRead, m_stderrRead,
                   m_outputThread, m_mutex, m_queueMutex, m_outputQueue, ret, command,
                   drainerVars, os, crashed, history>>
    /\ Quiet

\* Faulty variant: CleanupProcess goes on without joining the output thread.
CleanupJoin_NoJoin(c) ==
    /\ pc[c] = "cl_join"
    /\ pc' = [pc EXCEPT ![c] = "cl_handles"]
    /\ UNCHANGED <<session, m_mutex, m_queueMutex, ret, command, drainerVars, os,
                   crashed, history>>
    /\ Quiet

\* if (m_outputThread.joinable()) m_outputThread.join();
CleanupJoin(c) ==
    /\ pc[c] = "cl_join"
    /\ IF m_outputThread
       THEN /\ dpc = "done"
            /\ m_outputThread' = FALSE
            /\ dpc' = "none"
       ELSE UNCHANGED <<m_outputThread, dpc>>
    /\ pc' = [pc EXCEPT ![c] = "cl_handles"]
    /\ UNCHANGED <<m_isRunning, m_processHandle, m_stdinWrite, m_stdoutRead,
                   m_stderrRead, m_mutex, m_queueMutex, m_outputQueue, ret, command,
                   buffer, os, crashed, history>>
    /\ Quiet

\* TerminateProcess / WaitForSingleObject / CloseHandle(m_processHandle), then
\* CloseHandle of each non-null pipe handle; every closed field becomes nullptr.
CleanupHandles(c) ==
    LET closing == <<m_processHandle, m_stdinWrite, m_stdoutRead, m_stderrRead>> IN
    /\ pc[c] = "cl_handles"
    /\ proc' = IF IsOpen(m_processHandle)
               THEN [proc EXCEPT ![AttemptOf(m_processHandle)] = "gone"]
               ELSE proc
    /\ pipeOut' = IF IsOpen(m_stdoutRead)
                  THEN [pipeOut EXCEPT ![AttemptOf(m_stdoutRead)] = <<>>]
                  ELSE pipeOut
    /\ handles' = CloseAllIn(handles, closing)
    /\ badCloses' = badCloses \cup BadClosesIn(handles, closing)
    /\ m_processHandle' = Null
    /\ m_stdinWrite' = Null
    /\ m_stdoutRead' = Null
    /\ m_stderrRead' = Null
    /\ pc' = [pc EXCEPT ![c] = "cl_queue"]
    /\ UNCHANGED <<m_isRunning, m_outputThread, m_mutex, m_queueMutex, m_outputQueue,
                   ret, command, drainerVars, nAttempts, nOut, crashed, history>>
    /\ Quiet

\* std::lock_guard<std::mutex> lock(m_queueMutex);
CleanupQueueLock(c) ==
    /\ pc[c] = "cl_queue"
    /\ m_queueMutex = Free
    /\ m_queueMutex' = c
    /\ pc' = [pc EXCEPT ![c] = "cl_clear"]
    /\ UNCHANGED <<m_isRunning, m_processHandle, m_stdinWrite, m_stdoutRead,
                   m_stderrRead, m_outputThread, m_mutex, m_outputQueue, ret, command,
                   drainerVars, os, crashed, history>>
    /\ Quiet

\* while (!m_outputQueue.empty()) m_outputQueue.pop(); and the return.
CleanupQueueClear(c) ==
    /\ pc[c] = "cl_clear"
    /\ m_outputQueue' = <<>>
    /\ m_queueMutex' = Free
    /\ pc' = [pc EXCEPT ![c] = ret[c]]
    /\ ret' = [ret EXCEPT ![c] = "idle"]
    /\ UNCHANGED <<m_isRunning, m_processHandle, m_stdinWrite, m_stdoutRead,
                   m_stderrRead, m_outputThread, m_mutex, command,
                   drainerVars, os, crashed>>
    /\ enqueued' = <<>>
    /\ returned' = <<>>
    /\ Quiet

\* ---------------------------------------------------- StopEngine (177-189)
\* Faulty variant: StopEngine rejects when no engine is running.
StopBegin_RequiresRunning(c) ==
    /\ pc[c] = "idle"
    /\ m_mutex = Free
    /\ IF m_isRunning
       THEN /\ m_mutex' = c
            /\ pc' = [pc EXCEPT ![c] = "cl_flag"]
            /\ ret' = [ret EXCEPT ![c] = "st_ret"]
            /\ promise' = NoPromise
       ELSE /\ promise' = Settle("StopEngine", "NotRunning", FALSE, <<>>)
            /\ UNCHANGED <<m_mutex, pc, ret>>
    /\ stdin' = NoWrite
    /\ UNCHANGED <<session, m_queueMutex, command, drainerVars, os, crashed, history>>

\* Faulty variant: StopEngine goes into CleanupProcess without the lifecycle
\* lock.
StopBegin_NoLock(c) ==
    /\ pc[c] = "idle"
    /\ pc' = [pc EXCEPT ![c] = "cl_flag"]
    /\ ret' = [ret EXCEPT ![c] = "st_ret"]
    /\ UNCHANGED <<session, m_mutex, m_queueMutex, command, drainerVars, os, crashed,
                   history>>
    /\ Quiet

StopBegin(c) ==
    /\ pc[c] = "idle"
    /\ m_mutex = Free
    /\ m_mutex' = c
    /\ pc' = [pc EXCEPT ![c] = "cl_flag"]
    /\ ret' = [ret EXCEPT ![c] = "st_ret"]
    /\ UNCHANGED <<session, m_queueMutex, command, drainerVars, os, crashed, history>>
    /\ Quiet

StopReturn(c) ==
    /\ pc[c] = "st_ret"
    /\ promise' = Settle("StopEngine", "resolved", TRUE, <<>>)
    /\ m_mutex' = Free
    /\ pc' = [pc EXCEPT ![c] = "idle"]
    /\ UNCHANGED <<session, m_queueMutex, ret, command, drainerVars, os, crashed, history>>
    /\ stdin' = NoWrite

\* ------------------------------------------- CreateEngineProcess (202-285)
\* How far CreateEngineProcess gets: the CreatePipe or CreateProcessW call that
\* fails, or "ok".
Outcomes == {"pipe1", "pipe2", "pipe3", "launch", "ok"}

\* The handles CreateEngineProcess has opened when it stops at outcome o.
OpenedBy(a, o) ==
    CASE o = "pipe1" -> {}
      [] o = "pipe2" -> {H(a, "stdinRead"), H(a, "stdinWrite")}
      [] o = "pipe3" -> {H(a, "stdinRead"), H(a, "stdinWrite"),
                         H(a, "stdoutRead"), H(a, "stdoutWrite")}
      [] o = "launch" -> {H(a, k) : k \in Kinds \ {"hProcess", "hThread"}}
      [] o = "ok" -> {H(a, k) : k \in Kinds}

\* Faulty variant: after a failed CreateProcessW the child-side pipe ends are
\* left open.
ClosedBy_LaunchKeepsChildEnds(a, o) ==
    CASE o = "pipe1" -> <<>>
      [] o = "pipe2" -> <<H(a, "stdinRead"), H(a, "stdinWrite")>>
      [] o = "pipe3" -> <<H(a, "stdinRead"), H(a, "stdinWrite"),
                          H(a, "stdoutRead"), H(a, "stdoutWrite")>>
      [] o = "launch" -> <<>>
      [] o = "ok" -> <<H(a, "stdinRead"), H(a, "stdoutWrite"), H(a, "stderrWrite"),
                       H(a, "hThread")>>

\* The CloseHandle calls CreateEngineProcess itself makes on that path.
ClosedBy(a, o) ==
    CASE o = "pipe1" -> <<>>
      [] o = "pipe2" -> <<H(a, "stdinRead"), H(a, "stdinWrite")>>
      [] o = "pipe3" -> <<H(a, "stdinRead"), H(a, "stdinWrite"),
                          H(a, "stdoutRead"), H(a, "stdoutWrite")>>
      [] o = "launch" -> <<H(a, "stdinRead"), H(a, "stdoutWrite"), H(a, "stderrWrite")>>
      [] o = "ok" -> <<H(a, "stdinRead"), H(a, "stdoutWrite"), H(a, "stderrWrite"),
                       H(a, "hThread")>>

\* The value CreateEngineProcess leaves in a pipe field: CreatePipe stores the
\* new handle in the field, and nothing on the failure paths resets it.
FieldAfter(old, a, k, o, set) == IF o \in set THEN H(a, k) ELSE old

CreateEngineProcess(c, o) ==
    LET a == nAttempts + 1 IN
    /\ nAttempts' = a
    /\ handles' = CloseAllIn(handles \cup OpenedBy(a, o), ClosedBy(a, o))
    /\ badCloses' = badCloses \cup BadClosesIn(handles \cup OpenedBy(a, o), ClosedBy(a, o))
    /\ m_stdinWrite' = FieldAfter(m_stdinWrite, a, "stdinWrite", o,
                                  {"pipe2", "pipe3", "launch", "ok"})
    /\ m_stdoutRead' = FieldAfter(m_stdoutRead, a, "stdoutRead", o,
                                  {"pipe3", "launch", "ok"})
    /\ m_stderrRead' = FieldAfter(m_stderrRead, a, "stderrRead", o, {"launch", "ok"})
    /\ m_processHandle' = FieldAfter(m_processHandle, a, "hProcess", o, {"ok"})
    /\ proc' = IF o = "ok" THEN [proc EXCEPT ![a] = "live"] ELSE proc

\* --------------------------------------------------- SpawnEngine (29-102)
\* Faulty variant: SpawnEngine never stops the running session first.
SpawnStopsFirst_Never == FALSE

\* if (m_isRunning) CleanupProcess();
SpawnStopsFirst == m_isRunning

\* Faulty variant: SpawnEngine clears the running flag, as the first statement
\* of the stop sequence does, before it looks for the engine binary.
SpawnBegin_StopsBeforeChecks(c) ==
    /\ pc[c] = "idle"
    /\ m_mutex = Free
    /\ \E found, copied \in BOOLEAN :
         IF ~found
         THEN /\ promise' = Settle("SpawnEngine", "NotFound", FALSE, <<>>)
              /\ m_isRunning' = FALSE
              /\ UNCHANGED <<m_mutex, pc, ret>>
         ELSE IF ~copied
         THEN /\ promise' = Settle("SpawnEngine", "CopyFailed", FALSE, <<>>)
              /\ m_isRunning' = FALSE
              /\ UNCHANGED <<m_mutex, pc, ret>>
         ELSE /\ nAttempts < MaxSpawns
              /\ m_mutex' = c
              /\ IF SpawnStopsFirst
                 THEN /\ pc' = [pc EXCEPT ![c] = "cl_flag"]
                      /\ ret' = [ret EXCEPT ![c] = "sp_create"]
                 ELSE /\ pc' = [pc EXCEPT ![c] = "sp_create"]
                      /\ ret' = ret
              /\ promise' = NoPromise
              /\ m_isRunning' = m_isRunning
    /\ UNCHANGED <<m_processHandle, m_stdinWrite, m_stdoutRead, m_stderrRead,
                   m_outputThread, m_outputQueue, m_queueMutex, command, drainerVars,
                   os, crashed, history>>
    /\ stdin' = NoWrite

SpawnBegin(c) ==
    /\ pc[c] = "idle"
    /\ m_mutex = Free
    /\ \E found, copied \in BOOLEAN :
         IF ~found
         THEN /\ promise' = Settle("SpawnEngine", "NotFound", FALSE, <<>>)
              /\ UNCHANGED <<m_mutex, pc, ret>>
         ELSE IF ~copied
         THEN /\ promise' = Settle("SpawnEngine", "CopyFailed", FALSE, <<>>)
              /\ UNCHANGED <<m_mutex, pc, ret>>
         ELSE /\ nAttempts < MaxSpawns
              /\ m_mutex' = c
              /\ IF SpawnStopsFirst
                 THEN /\ pc' = [pc EXCEPT ![c] = "cl_flag"]
                      /\ ret' = [ret EXCEPT ![c] = "sp_create"]
                 ELSE /\ pc' = [pc EXCEPT ![c] = "sp_create"]
                      /\ ret' = ret
              /\ promise' = NoPromise
    /\ UNCHANGED <<session, m_queueMutex, command, drainerVars, os, crashed, history>>
    /\ stdin' = NoWrite

\* if (!CreateEngineProcess(tempEnginePath)) { promise.Reject(...); return; }
SpawnCreate(c) ==
    /\ pc[c] = "sp_create"
    /\ \E o \in Outcomes :
         /\ CreateEngineProcess(c, o)
         /\ CASE o = "ok" ->
                   /\ pc' = [pc EXCEPT ![c] = "sp_start"]
                   /\ UNCHANGED <<ret, m_mutex>>
                   /\ promise' = NoPromise
              [] o = "launch" ->
                   /\ pc' = [pc EXCEPT ![c] = "cl_flag"]
                   /\ ret' = [ret EXCEPT ![c] = "sp_reject"]
                   /\ promise' = NoPromise
                   /\ m_mutex' = m_mutex
              [] OTHER ->
                   /\ promise' = Settle("SpawnEngine", "SpawnFailed", FALSE, <<>>)
                   /\ m_mutex' = Free
                   /\ pc' = [pc EXCEPT ![c] = "idle"]
                   /\ ret' = ret
    /\ UNCHANGED <<m_isRunning, m_outputThread, m_queueMutex, m_outputQueue, command,
                   drainerVars, pipeOut, nOut, crashed, history>>
    /\ stdin' = NoWrite

\* CreateEngineProcess returned false after its own CleanupProcess (277-278).
SpawnReject(c) ==
    /\ pc[c] = "sp_reject"
    /\ promise' = Settle("SpawnEngine", "SpawnFailed", FALSE, <<>>)
    /\ m_mutex' = Free
    /\ pc' = [pc EXCEPT ![c] = "idle"]
    /\ UNCHANGED <<session, m_queueMutex, ret, command, drainerVars, os, crashed, history>>
    /\ stdin' = NoWrite

\* m_isRunning = true; m_outputThread = std::thread(...); promise.Resolve(true);
\* Move-assigning to a joinable std::thread calls std::terminate, which ends
\* every thread of the host process.
SpawnStart(c) ==
    /\ pc[c] = "sp_start"
    /\ m_isRunning' = TRUE
    /\ IF m_outputThread
       THEN /\ crashed' = TRUE
            /\ pc' = [x \in Callers |-> "terminated"]
            /\ dpc' = "terminated"
            /\ UNCHANGED <<m_outputThread, m_mutex>>
            /\ promise' = NoPromise
       ELSE /\ m_outputThread' = TRUE
            /\ dpc' = "loop"
            /\ promise' = Settle("SpawnEngine", "resolved", TRUE, <<>>)
            /\ m_mutex' = Free
            /\ pc' = [pc EXCEPT ![c] = "idle"]
            /\ crashed' = crashed
    /\ UNCHANGED <<m_processHandle, m_stdinWrite, m_stdoutRead, m_stderrRead,
                   m_queueMutex, m_outputQueue, ret, command, buffer, os, history>>
    /\ stdin' = NoWrite

\* -------------------------------------------------- SendCommand (107-141)
\* if (!command.empty() && command.back() != '\n') command += '\n';
WithNewline(cmd) ==
    IF cmd # <<>> /\ cmd[Len(cmd)] # NL THEN Append(cmd, NL) ELSE cmd

\* Faulty variant: SendCommand tests the handle only, not the running flag.
SendRefused_HandleOnly == m_stdinWrite = Null

\* if (!m_isRunning || m_stdinWrite == nullptr)
SendRefused == ~m_isRunning \/ m_stdinWrite = Null

SendBegin(c) ==
    /\ pc[c] = "idle"
    /\ m_mutex = Free
    /\ \E cmd \in Commands :
         IF SendRefused
         THEN /\ promise' = Settle("SendCommand", "NotRunning", FALSE, <<>>)
              /\ UNCHANGED <<m_mutex, pc, command>>
         ELSE /\ m_mutex' = c
              /\ command' = [command EXCEPT ![c] = cmd]
              /\ pc' = [pc EXCEPT ![c] = "sn_write"]
              /\ promise' = NoPromise
    /\ UNCHANGED <<session, m_queueMutex, ret, drainerVars, os, crashed, history>>
    /\ stdin' = NoWrite

\* What WriteFile(m_stdinWrite, data, len, &bytesWritten, nullptr) can report:
\* failure, or success with bytesWritten <= len.  It can succeed only on an open
\* handle whose pipe still has its reader, the engine process.
WriteResults(data) ==
    {[ok |-> FALSE, written |-> 0]} \cup
    IF IsOpen(m_stdinWrite) /\ proc[AttemptOf(m_stdinWrite)] = "live"
    THEN {[ok |-> TRUE, written |-> n] : n \in 0..Len(data)}
    ELSE {}

\* if (!WriteFile(...)) { Reject } ... promise.Resolve(true);
SendSucceeds(w, data) == w.ok

SendWrite(c) ==
    /\ pc[c] = "sn_write"
    /\ LET data == WithNewline(command[c]) IN
       \E w \in WriteResults(data) :
         /\ stdin' = [att |-> AttemptOf(m_stdinWrite), cmd |-> command[c], req |-> data,
                      ok |-> w.ok, written |-> w.written]
         /\ promise' = IF SendSucceeds(w, data)
                       THEN Settle("SendCommand", "resolved", TRUE, <<>>)
                       ELSE Settle("SendCommand", "WriteFailed", FALSE, <<>>)
    /\ command' = [command EXCEPT ![c] = <<>>]
    /\ m_mutex' = Free
    /\ pc' = [pc EXCEPT ![c] = "idle"]
    /\ UNCHANGED <<session, m_queueMutex, ret, drainerVars, handles, badCloses, proc, pipeOut,
                   nAttempts, nOut, crashed, history>>

\* --------------------------------------------------- ReadOutput (146-172)
\* Faulty variant: ReadOutput waits until the lifecycle lock is free.
ReadBegin_WaitsForLifecycle(c) ==
    /\ pc[c] = "idle"
    /\ m_mutex = Free
    /\ m_queueMutex = Free
    /\ m_queueMutex' = c
    /\ pc' = [pc EXCEPT ![c] = "rd_drain"]
    /\ UNCHANGED <<session, m_mutex, ret, command, drainerVars, os, crashed, history>>
    /\ Quiet

\* std::lock_guard<std::mutex> lock(m_queueMutex);
ReadBegin(c) ==
    /\ pc[c] = "idle"
    /\ m_queueMutex = Free
    /\ m_queueMutex' = c
    /\ pc' = [pc EXCEPT ![c] = "rd_drain"]
    /\ UNCHANGED <<session, m_mutex, ret, command, drainerVars, os, crashed, history>>
    /\ Quiet

\* The text ReadOutput resolves with.
ReadText == IF m_outputQueue = <<>> THEN <<>> ELSE DrainAll(m_outputQueue)

\* Faulty variant: ReadOutput rejects when no engine is running.
ReadDrain_RequiresRunning(c) ==
    /\ pc[c] = "rd_drain"
    /\ IF m_isRunning
       THEN /\ promise' = Settle("ReadOutput", "resolved", TRUE, ReadText)
            /\ m_outputQueue' = <<>>
            /\ returned' = returned \o ReadText
       ELSE /\ promise' = Settle("ReadOutput", "NotRunning", FALSE, <<>>)
            /\ UNCHANGED <<m_outputQueue, returned>>
    /\ m_queueMutex' = Free
    /\ pc' = [pc EXCEPT ![c] = "idle"]
    /\ UNCHANGED <<m_isRunning, m_processHandle, m_stdinWrite, m_stdoutRead,
                   m_stderrRead, m_outputThread, m_mutex, ret, command, drainerVars,
                   os, crashed, enqueued>>
    /\ stdin' = NoWrite

ReadDrain(c) ==
    /\ pc[c] = "rd_drain"
    /\ promise' = Settle("ReadOutput", "resolved", TRUE, ReadText)
    /\ m_outputQueue' = <<>>
    /\ m_queueMutex' = Free
    /\ pc' = [pc EXCEPT ![c] = "idle"]
    /\ UNCHANGED <<m_isRunning, m_processHandle, m_stdinWrite, m_stdoutRead,
                   m_stderrRead, m_outputThread, m_mutex, ret, command, drainerVars,
                   os, crashed, enqueued>>
    /\ returned' = returned \o ReadText
    /\ stdin' = NoWrite

\* ---------------------------------------------- IsEngineRunning (194-197)
IsEngineRunning(c) ==
    /\ pc[c] = "idle"
    /\ promise' = Settle("IsEngineRunning", "resolved", m_isRunning, <<>>)
    /\ UNCHANGED <<session, m_mutex, m_queueMutex, pc, ret, command, drainerVars, os,
                   crashed, history>>
    /\ stdin' = NoWrite

\* -------------------------------------------- OutputReaderThread (290-335)
\* Faulty variant: the drainer's loop does not test the running flag.
DrainerTest_IgnoresFlag ==
    /\ dpc = "loop"
    /\ dpc' = "poll"
    /\ UNCHANGED <<session, m_mutex, m_queueMutex, pc, ret, command, buffer, os,
                   crashed, history>>
    /\ Quiet

\* while (m_isRunning)
DrainerTest ==
    /\ dpc = "loop"
    /\ dpc' = IF m_isRunning THEN "poll" ELSE "done"
    /\ UNCHANGED <<session, m_mutex, m_queueMutex, pc, ret, command, buffer, os,
                   crashed, history>>
    /\ Quiet

\* PeekNamedPipe(m_stdoutRead, ...) && available > 0, then ReadFile of at most
\* sizeof(buffer) - 1 bytes.  Either call may fail; the loop then just goes on.
DrainerPoll ==
    /\ dpc = "poll"
    /\ LET a == AttemptOf(m_stdoutRead)
           available == IF IsOpen(m_stdoutRead) THEN Len(pipeOut[a]) ELSE 0
           bytesRead == Min(available, BufSize - 1)
       IN \/ /\ available > 0
             /\ buffer' = SubSeq(pipeOut[a], 1, bytesRead)
             /\ pipeOut' = [pipeOut EXCEPT ![a] = SubSeq(@, bytesRead + 1, Len(@))]
             /\ dpc' = "lock"
          \/ /\ dpc' = "sleep"
             /\ UNCHANGED <<buffer, pipeOut>>
    /\ UNCHANGED <<session, m_mutex, m_queueMutex, pc, ret, command, handles, badCloses, proc,
                   nAttempts, nOut, crashed, history>>
    /\ Quiet

\* std::lock_guard<std::mutex> lock(m_queueMutex);
DrainerLock ==
    /\ dpc = "lock"
    /\ m_queueMutex = Free
    /\ m_queueMutex' = Drainer
    /\ dpc' = "push"
    /\ UNCHANGED <<session, m_mutex, pc, ret, command, buffer, os, crashed, history>>
    /\ Quiet

\* Faulty variant: the drainer puts the chunk at the front of the queue.
DrainerPush_Front ==
    /\ dpc = "push"
    /\ m_outputQueue' = <<CString(buffer)>> \o m_outputQueue
    /\ m_queueMutex' = Free
    /\ buffer' = <<>>
    /\ dpc' = "sleep"
    /\ UNCHANGED <<m_isRunning, m_processHandle, m_stdinWrite, m_stdoutRead,
                   m_stderrRead, m_outputThread, m_mutex, pc, ret, command, os,
                   crashed, returned>>
    /\ enqueued' = Append(enqueued, CString(buffer))
    /\ Quiet

\* m_outputQueue.push(output);
DrainerPush ==
    /\ dpc = "push"
    /\ m_outputQueue' = Append(m_outputQueue, CString(buffer))
    /\ m_queueMutex' = Free
    /\ buffer' = <<>>
    /\ dpc' = "sleep"
    /\ UNCHANGED <<m_isRunning, m_processHandle, m_stdinWrite, m_stdoutRead,
                   m_stderrRead, m_outputThread, m_mutex, pc, ret, command, os,
                   crashed, returned>>
    /\ enqueued' = Append(enqueued, CString(buffer))
    /\ Quiet

\* Faulty variant: the drainer never notices that the process has exited.
DrainerSleepCheck_NeverSeesExit ==
    /\ dpc = "sleep"
    /\ dpc' = "loop"
    /\ UNCHANGED <<session, m_mutex, m_queueMutex, pc, ret, command, buffer, os,
                   crashed, history>>
    /\ Quiet

\* sleep_for(10ms); GetExitCodeProcess(m_processHandle, &exitCode) &&
\* exitCode != STILL_ACTIVE
DrainerSleepCheck ==
    /\ dpc = "sleep"
    /\ dpc' = IF IsOpen(m_processHandle) /\ proc[AttemptOf(m_processHandle)] # "live"
              THEN "exit" ELSE "loop"
    /\ UNCHANGED <<session, m_mutex, m_queueMutex, pc, ret, command, buffer, os,
                   crashed, history>>
    /\ Quiet

\* Faulty variant: the drainer clears the flag and goes on polling the pipe
\* instead of leaving the loop.
DrainerSetFalse_KeepsPolling ==
    /\ dpc = "exit"
    /\ m_isRunning' = FALSE
    /\ dpc' = "poll"
    /\ UNCHANGED <<m_processHandle, m_stdinWrite, m_stdoutRead, m_stderrRead,
                   m_outputThread, m_mutex, m_queueMutex, m_outputQueue, pc, ret,
                   command, buffer, os, crashed, history>>
    /\ Quiet

\* m_isRunning = false; break;
DrainerSetFalse ==
    /\ dpc = "exit"
    /\ m_isRunning' = FALSE
    /\ dpc' = "done"
    /\ UNCHANGED <<m_processHandle, m_stdinWrite, m_stdoutRead, m_stderrRead,
                   m_outputThread, m_mutex, m_queueMutex, m_outputQueue, pc, ret,
                   command, buffer, os, crashed, history>>
    /\ Quiet

\* ------------------------------------------------------ the engine process
\* The engine writes one byte of text to its stdout.  The bytes are numbered
\* in the order they are written, so that every byte is told from every other.
EngineWrites(a) ==
    /\ proc[a] = "live"
    /\ nOut < MaxOut
    /\ pipeOut' = [pipeOut EXCEPT ![a] = Append(@, nOut + 1)]
    /\ nOut' = nOut + 1
    /\ UNCHANGED <<session, m_mutex, m_queueMutex, pc, ret, command, drainerVars,
                   handles, badCloses, proc, nAttempts, crashed, history>>
    /\ Quiet

\* The engine exits on its own.
EngineExits(a) ==
    /\ proc[a] = "live"
    /\ proc' = [proc EXCEPT ![a] = "exited"]
    /\ UNCHANGED <<session, m_mutex, m_queueMutex, pc, ret, command, drainerVars,
                   handles, badCloses, pipeOut, nAttempts, nOut, crashed, history>>
    /\ Quiet

\* ------------------------------------------------------------------- Next
CallerStep(c) ==
    \/ SpawnBegin(c) \/ SpawnCreate(c) \/ SpawnReject(c) \/ SpawnStart(c)
    \/ SendBegin(c) \/ SendWrite(c)
    \/ ReadBegin(c) \/ ReadDrain(c)
    \/ StopBegin(c) \/ StopReturn(c)
    \/ IsEngineRunning(c)
    \/ CleanupClearFlag(c) \/ CleanupJoin(c) \/ CleanupHandles(c)
    \/ CleanupQueueLock(c) \/ CleanupQueueClear(c)

DrainerStep ==
    \/ DrainerTest \/ DrainerPoll \/ DrainerLock \/ DrainerPush
    \/ DrainerSleepCheck \/ DrainerSetFalse

EngineStep == \E a \in Attempts : EngineWrites(a) \/ EngineExits(a)

Next ==
    \/ \E c \in Callers : CallerStep(c)
    \/ DrainerStep
    \/ EngineStep

Spec == Init /\ [][Next]_vars

\* ---------------------------------------------------------------- fairness
\* The steps of a caller that is inside a method: a thread that has entered a
\* method keeps running until the method returns.  Whether and when a method
\* is called at all is up to the host.
Proceed(c) ==
    \/ SpawnCreate(c) \/ SpawnReject(c) \/ SpawnStart(c)
    \/ SendWrite(c)
    \/ ReadDrain(c)
    \/ StopReturn(c)
    \/ CleanupClearFlag(c) \/ CleanupJoin(c) \/ CleanupHandles(c)
    \/ CleanupQueueLock(c) \/ CleanupQueueClear(c)

\* PeekNamedPipe and ReadFile succeed on a pipe that holds data.
DrainerReads == DrainerPoll /\ dpc' = "lock"

\* Every thread inside the module is scheduled again and again, a thread that
\* waits for a mutex that is released again and again gets it (strong
\* fairness), and a read of a pipe that holds data does not fail for ever.
ThreadsFair ==
    /\ \A c \in Callers : SF_vars(Proceed(c))
    /\ SF_vars(DrainerStep)
    /\ SF_vars(DrainerReads)

LiveSpec == Spec /\ ThreadsFair

\* The host polls: it calls ReadOutput again and again.
HostPolls == SF_vars(\E c \in Callers : ReadBegin(c))

PollSpec == Spec /\ ThreadsFair /\ HostPolls

\* ======================================================================
\* Properties
\* ======================================================================
SessionHandles == <<m_processHandle, m_stdinWrite, m_stdoutRead, m_stderrRead>>
AllNull == \A i \in 1..4 : SessionHandles[i] = Null
AllValid == \A i \in 1..4 : IsOpen(SessionHandles[i])

\* The null configuration of the session: nothing running, no handle held, no
\* output thread, nothing queued.
NullConfig ==
    /\ ~m_isRunning
    /\ AllNull
    /\ ~m_outputThread
    /\ dpc = "none"
    /\ m_outputQueue = <<>>

LiveEngines == {a \in Attempts : proc[a] = "live"}

\* The caller is inside the CleanupProcess call that `from` made.
InCleanup(c, from) ==
    pc[c] \in {"cl_flag", "cl_join", "cl_handles", "cl_queue", "cl_clear"} /\ ret[c] = from

\* ---------------------------------------------------------------------- C1
\* C1: a SpawnEngine call that finds the session running goes through
\* CleanupProcess before it creates anything, and when that CleanupProcess
\* returns to it the old session is fully stopped: the flag is clear, the
\* output thread is joined, no engine process is alive, no process handle is
\* open and the session holds no handle.  At no time are two engine processes
\* alive.
C1_StopsBeforeCreate ==
    \A c \in Callers :
        /\ (pc[c] = "idle" /\ pc'[c] = "sp_create") => ~m_isRunning
        /\ (InCleanup(c, "sp_create") /\ pc'[c] = "sp_create") =>
              /\ ~m_isRunning' /\ ~m_outputThread' /\ dpc' = "none"
              /\ m_processHandle' = Null /\ m_stdinWrite' = Null
              /\ m_stdoutRead' = Null /\ m_stderrRead' = Null
              /\ {a \in Attempts : proc'[a] = "live"} = {}
              /\ {h \in handles' : h[2] = "hProcess"} = {}

C1_RestartStopsOldSession ==
    /\ [](Cardinality(LiveEngines) <= 1)
    /\ [][C1_StopsBeforeCreate]_vars

\* A SpawnEngine call has stopped a started session and is about to create
\* the new process.
C1_Witness ==
    \E c \in Callers : /\ pc[c] = "cl_clear" /\ ret[c] = "sp_create"
                       /\ nAttempts = 1 /\ proc[1] = "gone"

\* ---------------------------------------------------------------------- C2
\* C2: in the state in which StopEngine has just returned, the running flag
\* is false, no joinable output thread remains and the process handle and
\* the three pipe handles of the session are null.
C2_AfterStop ==
    promise.op = "StopEngine" =>
        /\ ~m_isRunning
        /\ ~m_outputThread /\ dpc = "none"
        /\ AllNull

\* StopEngine has just returned from stopping an engine that had been started.
C2_Witness ==
    /\ promise.op = "StopEngine" /\ promise.kind = "resolved"
    /\ nAttempts = 1 /\ proc[1] = "gone" /\ nOut > 0

\* ---------------------------------------------------------------------- C3
\* C3: a StopEngine call that starts in the null configuration (no session, or
\* right after another StopEngine) keeps the session in the null configuration
\* at every step until it returns, and resolves.
C3_StopKeepsNull ==
    \A c \in Callers :
        (NullConfig /\ ((pc[c] = "idle" /\ pc'[c] # "idle" /\ ret'[c] = "st_ret")
                        \/ InCleanup(c, "st_ret") \/ pc[c] = "st_ret"))
        => /\ NullConfig'
           /\ (pc'[c] = "idle" =>
                 promise' = Settle("StopEngine", "resolved", TRUE, <<>>))

C3_StopIdempotent ==
    /\ [][C3_StopKeepsNull]_vars
    /\ [](promise.op = "StopEngine" => promise.kind = "resolved")

\* StopEngine has just returned and no engine was ever started.
C3_Witness ==
    /\ promise.op = "StopEngine" /\ promise.kind = "resolved"
    /\ nAttempts = 0 /\ NullConfig

\* ---------------------------------------------------------------------- C4
\* C4: a SendCommand call that finds the running flag false is rejected as
\* NotRunning in that step, without a WriteFile call and without going on to
\* the write.
C4_Refused ==
    \A c \in Callers :
        (/\ pc[c] = "idle"
         /\ m_mutex = Free
         /\ ~m_isRunning
         /\ (promise'.op = "SendCommand" \/ pc'[c] = "sn_write"))
        => /\ promise' = Settle("SendCommand", "NotRunning", FALSE, <<>>)
           /\ stdin' = NoWrite
           /\ pc'[c] = "idle"

C4_NotRunningNoWrite == [][C4_Refused]_vars

\* SendCommand was just refused although the session still holds an open
\* stdin handle: the engine exited and the drainer cleared the flag.
C4_Witness ==
    /\ promise.op = "SendCommand" /\ promise.kind = "NotRunning"
    /\ IsOpen(m_stdinWrite) /\ ~m_isRunning

\* ---------------------------------------------------------------------- C5
\* The bytes the stdin pipe accepted in the WriteFile call just made.
Accepted == SubSeq(stdin.req, 1, stdin.written)

SendResolved == promise.op = "SendCommand" /\ promise.kind = "resolved"
FullWrite == stdin.ok /\ stdin.written = Len(stdin.req)

\* C5: a successful SendCommand(c) whose write is accepted in full puts on the
\* engine's stdin c followed by one line terminator; when c already ends with
\* a line terminator none is added; the empty string is a command like any
\* other.
C5_OneTrailingTerminator ==
    (SendResolved /\ FullWrite) =>
        LET c == stdin.cmd
        IN Accepted = IF c # <<>> /\ c[Len(c)] = NL THEN c ELSE c \o <<NL>>

\* What the code does: the bytes handed to WriteFile are c when c is empty or
\* already ends with a line terminator, and c plus one line terminator
\* otherwise.
SendHandsOverWithNewline ==
    stdin # NoWrite =>
        LET c == stdin.cmd
        IN stdin.req = IF c = <<>> \/ c[Len(c)] = NL THEN c ELSE c \o <<NL>>

\* ---------------------------------------------------------------------- C6
\* C6: SendCommand is rejected as WriteFailed whenever WriteFile reports an
\* error or accepts fewer bytes than it was handed, and resolves only when the
\* full length was accepted.
C6_ShortWriteFails ==
    stdin # NoWrite =>
        /\ (~stdin.ok \/ stdin.written < Len(stdin.req)) =>
               (promise.op = "SendCommand" /\ promise.kind = "WriteFailed")
        /\ SendResolved => FullWrite

\* ---------------------------------------------------------------------- C7
\* C7: ReadOutput can start whenever the queue lock is free, whatever the
\* engine state and whoever holds the lifecycle lock; it always resolves, with
\* the text of the queue, which is empty text when the queue is empty; and the
\* drainer's own exit, on seeing that the engine exited, leaves the queue as
\* it is.
C7_ReadStep ==
    /\ \A c \in Callers :
         (pc[c] = "rd_drain" /\ pc'[c] = "idle") =>
            /\ promise'.op = "ReadOutput" /\ promise'.kind = "resolved"
            /\ promise'.text = DrainAll(m_outputQueue)
            /\ (m_outputQueue = <<>> => promise'.text = <<>>)
    /\ (dpc = "exit" /\ dpc' = "done") => m_outputQueue' = m_outputQueue

C7_ReadNeverFails ==
    /\ [](\A c \in Callers :
            (pc[c] = "idle" /\ m_queueMutex = Free) => ENABLED ReadBegin(c))
    /\ [](promise.op = "ReadOutput" => promise.kind = "resolved")
    /\ [][C7_ReadStep]_vars

\* ReadOutput has just returned queued text although the engine had exited on
\* its own and the drainer had cleared the running flag.
C7_Witness ==
    /\ promise.op = "ReadOutput" /\ promise.kind = "resolved" /\ promise.text # <<>>
    /\ ~m_isRunning /\ dpc = "done"
    /\ IsOpen(m_processHandle) /\ proc[AttemptOf(m_processHandle)] = "exited"

\* ---------------------------------------------------------------------- C8
\* C8: between two clears of the queue, the text ReadOutput has returned so
\* far followed by the chunks still queued is the chunks the drainer pushed,
\* in the order it pushed them; and the queue is empty in the state in which
\* ReadOutput has just released the queue lock.
C8_FifoNoLossNoDup ==
    /\ returned \o DrainAll(m_outputQueue) = DrainAll(enqueued)
    /\ promise.op = "ReadOutput" => (m_outputQueue = <<>> /\ m_queueMutex = Free)

\* One ReadOutput call has just returned two chunks that were queued one
\* after the other.
C8_Witness ==
    /\ promise.op = "ReadOutput" /\ promise.text = <<1, 2>>
    /\ enqueued = << <<1>>, <<2>> >>
    /\ returned = <<1, 2>>

\* ---------------------------------------------------------------------- C9
\* C9: whenever the lifecycle lock is free, the four session handles are all
\* null or all open handles.
C9_AllNullOrAllValid ==
    (m_mutex = Free /\ ~crashed) => (AllNull \/ AllValid)

\* --------------------------------------------------------------------- C10
\* C10: when SpawnEngine returns because a CreatePipe call failed, the call is
\* rejected, every pipe end the attempt opened is closed, the running flag is
\* false and all four session handle fields are null.
C10_PipeFailureStep ==
    \A c \in Callers :
        (pc[c] = "sp_create" /\ pc'[c] = "idle") =>
            /\ promise' = Settle("SpawnEngine", "SpawnFailed", FALSE, <<>>)
            /\ \A h \in handles' : AttemptOf(h) # nAttempts'
            /\ ~m_isRunning'
            /\ m_processHandle' = Null /\ m_stdinWrite' = Null
            /\ m_stdoutRead' = Null /\ m_stderrRead' = Null

C10_PipeFailureRollsBack == [][C10_PipeFailureStep]_vars

\* --------------------------------------------------------------------- C11
\* The pipe ends CreateEngineProcess hands to the child.
ChildEnds(a) == {H(a, "stdinRead"), H(a, "stdoutWrite"), H(a, "stderrWrite")}

\* The session after a full rollback: flag clear, the four fields null, no
\* output thread, no engine process alive, nothing queued.
RolledBack ==
    /\ ~m_isRunning
    /\ AllNull
    /\ ~m_outputThread /\ dpc = "none"
    /\ LiveEngines = {}
    /\ m_outputQueue = <<>>

\* C11: when CreateProcessW fails, CreateEngineProcess has closed the
\* child-side pipe ends and created no process when it goes into
\* CleanupProcess; when that CleanupProcess has returned, and in the state in
\* which SpawnEngine then returns, the session is rolled back (flag false, all
\* four handle fields null, no output thread, no engine process alive), no
\* handle of the attempt is open, and the call is rejected.
C11_LaunchFailureStep ==
    \A c \in Callers :
        /\ (pc[c] = "sp_create" /\ pc'[c] = "cl_flag") =>
              /\ ret'[c] = "sp_reject"
              /\ ChildEnds(nAttempts') \cap handles' = {}
              /\ proc'[nAttempts'] = "none"
        /\ (pc[c] = "sp_reject" /\ pc'[c] # "sp_reject") =>
              /\ pc'[c] = "idle"
              /\ promise' = Settle("SpawnEngine", "SpawnFailed", FALSE, <<>>)
              /\ RolledBack'
              /\ \A h \in handles' : AttemptOf(h) # nAttempts'

C11_LaunchFailureRollsBack ==
    /\ [](\A c \in Callers :
            pc[c] = "sp_reject" =>
                (RolledBack /\ \A h \in handles : AttemptOf(h) # nAttempts))
    /\ [][C11_LaunchFailureStep]_vars

\* CreateProcessW failed in a SpawnEngine call that had first stopped a running
\* session, and the rollback is done: the call is about to be rejected.
C11_Witness ==
    \E c \in Callers : pc[c] = "sp_reject" /\ nAttempts = 2 /\ proc[1] = "gone"

\* --------------------------------------------------------------------- C12
\* The caller is inside the body of SpawnEngine, StopEngine or SendCommand.
InLifecycleBody(c) ==
    pc[c] \in {"sp_create", "sp_reject", "sp_start", "sn_write", "st_ret",
               "cl_flag", "cl_join", "cl_handles", "cl_queue", "cl_clear"}

\* The step creates or closes a handle, writes to the engine, joins or starts
\* the output thread, or changes a session handle field or the running flag
\* from a caller's thread.
LifecycleEffect ==
    \/ handles' # handles
    \/ badCloses' # badCloses
    \/ nAttempts' # nAttempts
    \/ stdin' # NoWrite
    \/ m_outputThread' # m_outputThread
    \/ SessionHandles' # SessionHandles
    \/ (m_isRunning' # m_isRunning /\ dpc # "exit")

\* C12: the bodies of SpawnEngine, StopEngine and SendCommand run one at a
\* time.  A step with a lifecycle effect is taken by the caller that holds the
\* lifecycle lock, or is a whole body run in one step while the lock is free;
\* the lock passes from a caller only to Free and only when that caller's body
\* ends, so the bodies are totally ordered; a promise of the three operations
\* is settled only by the holder or while the lock is free.
C12_Step ==
    /\ LifecycleEffect =>
          \E c \in Callers : /\ pc'[c] # pc[c]
                             /\ InLifecycleBody(c)
                             /\ m_mutex = c
    /\ (m_mutex \in Callers /\ m_mutex' # m_mutex) =>
          (m_mutex' = Free /\ pc'[m_mutex] = "idle")
    /\ (m_mutex = Free /\ m_mutex' # Free) =>
          (pc[m_mutex'] = "idle" /\ InLifecycleBody(m_mutex)')
    /\ promise'.op \in {"SpawnEngine", "StopEngine", "SendCommand"} =>
          (m_mutex' = Free /\ (m_mutex = Free \/ pc'[m_mutex] # pc[m_mutex]))

C12_MutualExclusion ==
    /\ [](\A c \in Callers : /\ InLifecycleBody(c) => m_mutex = c
                             /\ m_mutex = c => (InLifecycleBody(c) \/ crashed))
    /\ [][C12_Step]_vars

\* One caller is in the middle of the stop sequence, holding the lifecycle
\* lock, and the other caller can start none of the three operations.
C12_Witness ==
    \E c, d \in Callers :
        /\ c # d
        /\ pc[c] = "cl_handles" /\ m_mutex = c /\ IsOpen(m_processHandle)
        /\ pc[d] = "idle"
        /\ ~ENABLED SpawnBegin(d) /\ ~ENABLED StopBegin(d) /\ ~ENABLED SendBegin(d)

\* --------------------------------------------------------------------- C13
\* The positions in which a thread holds the queue lock: the drain of
\* ReadOutput, the clear of CleanupProcess, the drainer's push.
QueueLockPositions ==
    /\ \A c \in Callers : m_queueMutex = c <=> pc[c] \in {"rd_drain", "cl_clear"}
    /\ m_queueMutex = Drainer <=> dpc = "push"

\* The holder of the queue lock can take its next step, which releases the
\* lock, whatever every other thread is doing.
QueueLockHolderRuns ==
    /\ \A c \in Callers :
         m_queueMutex = c => ENABLED (ReadDrain(c) \/ CleanupQueueClear(c))
    /\ m_queueMutex = Drainer => ENABLED DrainerPush

\* The blocking steps (the drainer's pipe read and its sleep, the join, the
\* process wait) are taken by a thread that does not hold the queue lock, and
\* the steps of ReadOutput leave the lifecycle lock as it is.
C13_Step ==
    /\ (dpc \in {"poll", "sleep"} /\ dpc' # dpc) => m_queueMutex # Drainer
    /\ \A c \in Callers :
         /\ (pc[c] \in {"cl_join", "cl_handles"} /\ pc'[c] # pc[c]) => m_queueMutex # c
         /\ ((pc[c] = "idle" /\ pc'[c] = "rd_drain")
             \/ (pc[c] = "rd_drain" /\ pc'[c] = "idle")) =>
               m_mutex' = m_mutex

\* C13: ReadOutput needs the queue lock only: it can start whenever the queue
\* lock is free, also while another caller holds the lifecycle lock, and once
\* started it can always finish; the queue lock is held only for a push, a
\* drain or the clear, never across a blocking step, and its holder can
\* always go on to release it.
C13_ReadOnlyQueueLock ==
    /\ [](~crashed =>
            /\ QueueLockPositions
            /\ QueueLockHolderRuns
            /\ \A c \in Callers :
                 (pc[c] = "idle" /\ m_queueMutex = Free /\ m_mutex \in Callers \ {c})
                     => ENABLED ReadBegin(c))
    /\ [][C13_Step]_vars

\* ReadOutput has just returned queued text to one caller while the other is
\* inside the stop sequence, holding the lifecycle lock and waiting in the
\* join for the drainer.
C13_Witness ==
    \E d \in Callers :
        /\ promise.op = "ReadOutput" /\ promise.text # <<>>
        /\ m_mutex = d /\ pc[d] = "cl_join"
        /\ m_outputThread /\ dpc # "done"

\* --------------------------------------------------------------------- C14
Range(f) == {f[i] : i \in DOMAIN f}

\* SendCommand has just resolved for a write to the engine of attempt a.
SentTo(a) == SendResolved /\ stdin.att = a

\* Byte b, written by the engine of the running session, waits in its pipe.
Responded(a, b) ==
    /\ m_isRunning /\ m_stdoutRead = H(a, "stdoutRead")
    /\ b \in Range(pipeOut[a])

\* ReadOutput has just returned text that holds byte b.
Delivered(b) == promise.op = "ReadOutput" /\ b \in Range(promise.text)

\* The session of attempt a was stopped: CleanupProcess ended its process.
StoppedSession(a) == proc[a] = "gone"

\* C14: once SendCommand has resolved on the session of a started engine,
\* every byte the engine has written to its stdout is, unless the session is
\* stopped, eventually in the text some ReadOutput call returns; and every
\* StopEngine resolves with the running flag false.
C14_ResponseReachesReader ==
    /\ \A a \in Attempts : \A b \in 1..MaxOut :
          [](SentTo(a) =>
               [](Responded(a, b) =>
                    <>(Delivered(b) \/ StoppedSession(a) \/ crashed)))
    /\ [](promise.op = "StopEngine" => (promise.kind = "resolved" /\ ~m_isRunning))

\* What the code does give: while the engine of the running session stays
\* alive, every byte it has written is eventually returned by ReadOutput,
\* unless the session is stopped first.
ResponseReachesReaderWhileEngineLives ==
    \A a \in Attempts : \A b \in 1..MaxOut :
        [](Responded(a, b) =>
             <>(Delivered(b) \/ StoppedSession(a) \/ crashed \/ proc[a] = "exited"))

\* --------------------------------------------------------------------- C15
\* C15: SpawnEngine reaches the start of the output thread only with the
\* thread slot not joinable and no drainer in existence, and that step starts
\* the one drainer; the host is never ended by an assignment to a joinable
\* thread.
C15_StartStep ==
    \A c \in Callers :
        (pc[c] = "sp_start" /\ pc'[c] # "sp_start") =>
            /\ ~m_outputThread /\ dpc = "none"
            /\ m_outputThread' /\ dpc' = "loop"
            /\ ~crashed'

C15_OneDrainerStartedOnJoinedSlot == [][C15_StartStep]_vars

\* --------------------------------------------------------------------- C16
\* No CloseHandle call was made on a handle that was not open.
NoSecondClose == badCloses = {}

\* Outside the lifecycle methods every open handle is held by a session
\* field: none was dropped by overwriting its field, none survives the return
\* to the null configuration.
NoLeak == (m_mutex = Free /\ ~crashed) => handles \subseteq Range(SessionHandles)

\* C16: every handle the session opens is closed exactly once: no handle is
\* left open without a session field holding it, and no handle is closed a
\* second time.
C16_ClosedExactlyOnce == NoSecondClose /\ NoLeak

\* --------------------------------------------------------------------- C17
\* The drainer thread exists and has not yet made its last handle access.
DrainerActive == dpc \in {"loop", "poll", "lock", "push", "sleep", "exit"}

\* C17: every PeekNamedPipe/ReadFile and GetExitCodeProcess call of the
\* drainer is made on an open handle; while the drainer is active no handle
\* is closed and the stdout and process handle fields are not replaced; and
\* past the join of the stop sequence no drainer exists.
C17_Step ==
    /\ (dpc = "poll" /\ dpc' # dpc) => IsOpen(m_stdoutRead)
    /\ (dpc = "sleep" /\ dpc' # dpc) => IsOpen(m_processHandle)
    /\ ((handles \ handles') # {}
         \/ m_stdoutRead' # m_stdoutRead
         \/ m_processHandle' # m_processHandle) => ~DrainerActive

C17_DrainerHandlesValid ==
    /\ [](\A c \in Callers :
            pc[c] \in {"cl_handles", "cl_queue", "cl_clear"} =>
                (dpc = "none" /\ ~m_outputThread))
    /\ [](DrainerActive => (IsOpen(m_stdoutRead) /\ IsOpen(m_processHandle)
                             /\ AttemptOf(m_stdoutRead) = AttemptOf(m_processHandle)))
    /\ [][C17_Step]_vars

\* The stop sequence has joined a drainer that had read from the pipe, and is
\* about to terminate the live engine and close the handles.
C17_Witness ==
    \E c \in Callers :
        /\ pc[c] = "cl_handles" /\ dpc = "none"
        /\ IsOpen(m_stdoutRead) /\ IsOpen(m_processHandle)
        /\ proc[AttemptOf(m_processHandle)] = "live"
        /\ enqueued # <<>>

\* --------------------------------------------------------------------- C18
\* The engine of the running session, started by attempt a, has exited on
\* its own.
ExitedWhileRunning(a) ==
    m_isRunning /\ m_processHandle = H(a, "hProcess") /\ proc[a] = "exited"

\* The running flag goes from true to false only in the drainer's exit path
\* or in the first statement of CleanupProcess.
C18_ClearStep ==
    (m_isRunning /\ ~m_isRunning') =>
        \/ (dpc = "exit" /\ dpc' = "done")
        \/ \E c \in Callers : pc[c] = "cl_flag" /\ pc'[c] = "cl_join"

\* C18: when the engine of the running session has exited on its own, the
\* drainer eventually has cleared the running flag and left its loop, unless
\* a stop sequence gets there first; the drainer takes its exit path only for
\* a process that has exited; IsEngineRunning returns the flag; and the flag
\* is cleared by these two paths only.
C18_ExitIsNoticed ==
    /\ \A a \in Attempts :
          ExitedWhileRunning(a) ~>
              ((~m_isRunning /\ dpc = "done") \/ StoppedSession(a) \/ crashed)
    /\ [](dpc = "exit" =>
            (IsOpen(m_processHandle) /\ proc[AttemptOf(m_processHandle)] = "exited"))
    /\ [](promise.op = "IsEngineRunning" => promise.value = m_isRunning)
    /\ [][C18_ClearStep]_vars

\* IsEngineRunning has just returned false although nothing stopped the
\* session: the engine exited, the drainer cleared the flag and returned, and
\* the session's handles are still open.
C18_Witness ==
    /\ promise.op = "IsEngineRunning" /\ promise.value = FALSE
    /\ dpc = "done" /\ m_outputThread
    /\ IsOpen(m_processHandle) /\ proc[AttemptOf(m_processHandle)] = "exited"

\* --------------------------------------------------------------------- C19
\* The caller is inside StopEngine, from the first statement of its
\* CleanupProcess to its return.
InStop(c) == InCleanup(c, "st_ret") \/ pc[c] = "st_ret"

\* While a caller waits in the join, the drainer does not start another
\* iteration.
C19_Step ==
    (dpc = "loop" /\ dpc' # dpc /\ \E c \in Callers : pc[c] = "cl_join") => dpc' = "done"

\* C19: every StopEngine call that has entered its stop sequence returns and
\* resolves; while it waits in the join the running flag stays false and the
\* drainer starts no further iteration; and an active drainer can always take
\* its next step unless it waits for the queue lock, whoever holds the
\* lifecycle lock.
C19_StopTerminates ==
    /\ \A c \in Callers :
          InStop(c) ~>
              (pc[c] = "idle" /\ promise = Settle("StopEngine", "resolved", TRUE, <<>>))
    /\ [](\A c \in Callers : pc[c] = "cl_join" => ~m_isRunning)
    /\ []((DrainerActive /\ (dpc = "lock" => m_queueMutex = Free)) => ENABLED DrainerStep)
    /\ [][C19_Step]_vars

\* StopEngine waits in the join while the drainer waits for the queue lock,
\* which the other caller holds inside ReadOutput.
C19_Witness ==
    \E c, d \in Callers :
        /\ pc[c] = "cl_join" /\ ret[c] = "st_ret" /\ m_mutex = c
        /\ dpc = "lock"
        /\ pc[d] = "rd_drain" /\ m_queueMutex = d

\* --------------------------------------------------------------------- C20
\* SpawnEngine has just been rejected before the launch step.
EarlyReject ==
    promise.op = "SpawnEngine" /\ promise.kind \in {"NotFound", "CopyFailed"}

\* C20: the step in which SpawnEngine is rejected because the binary is not
\* found or cannot be copied changes nothing of the session, of the drainer
\* or of the OS objects and leaves both locks free; a SpawnEngine call goes
\* into the stop sequence only from its entry with the session running, and
\* every SpawnEngine step other than the early rejects takes the lock or is
\* made by its holder.
C20_Step ==
    /\ EarlyReject' =>
          /\ UNCHANGED <<session, drainerVars, os, m_mutex, m_queueMutex, pc, ret>>
          /\ m_mutex = Free
    /\ \A c \in Callers :
         (pc[c] # "cl_flag" /\ pc'[c] = "cl_flag" /\ ret'[c] = "sp_create") =>
             (pc[c] = "idle" /\ m_isRunning /\ ~EarlyReject' /\ m_mutex' = c)

C20_EarlyFailureChangesNothing == [][C20_Step]_vars

\* SpawnEngine has just been rejected because the binary was not found, while
\* a session is running: engine alive, drainer active, output queued.
C20_Witness ==
    /\ promise.op = "SpawnEngine" /\ promise.kind = "NotFound"
    /\ m_isRunning /\ DrainerActive /\ m_outputQueue # <<>>
    /\ IsOpen(m_processHandle) /\ proc[AttemptOf(m_processHandle)] = "live"

\* The same for a failed copy of the binary.
C20_WitnessCopy ==
    /\ promise.op = "SpawnEngine" /\ promise.kind = "CopyFailed"
    /\ m_isRunning /\ DrainerActive

====
